---- MODULE Spec2Model ----
(***************************************************************************)
(* The web-model request lifecycle of cherry-studio.                       *)
(*                                                                         *)
(*   Observer  src/src/main/preload/webModelPreload.ts  (page context)     *)
(*   Broker    src/unnamed/part_000   WebModelService   (main process)     *)
(*   Facade    src/unnamed/part_001   WebModelClient    (caller context)   *)
(*                                                                         *)
(* The three run in separate single-threaded contexts and talk only by     *)
(* asynchronous messages.  One action of the model is one handler run to   *)
(* its next suspension point (an await on a promise that an event of       *)
(* another context settles), microtask continuations included.             *)
(***************************************************************************)
EXTENDS Integers, Sequences, FiniteSets

\* ---------------------------------------------------------------- bounds
NumCtx == 2          \* caller contexts (renderer webContents)
MaxOps == 2          \* Facade.sendMessage invocations; op k is given request id k
MaxWin == 2          \* hidden windows the session host ever constructs
MaxCancels == 2      \* Facade.cancel invocations
MaxPageSteps == 2    \* changes of the automated page's visible state
ClockStep == 750     \* milliseconds of one advance of the wall clock
MaxNow == 3000       \* the wall clock stops advancing here
MaxDestroyed == 1    \* caller contexts that terminate
StreamOps == 1       \* requests followed end to end in SpecStream

\* ------------------------------------------------------ program constants
QuietPeriod == 1500  \* webModelPreload.ts:153

Ctx == 1..NumCtx
Ops == 1..MaxOps
Wins == 1..MaxWin
EmptyId == 0                 \* the empty string, the only falsy request id
UnknownId == MaxOps + 1      \* a token no sendMessage ever generated
Ids == Ops \cup {UnknownId}
None == "<undefined>"        \* an absent payload field
Contents == {"a", "b"}       \* non-empty answer texts the page can show
InputTimeout == "Timed out waiting for ChatGPT input area"
NoSendButton == "Unable to locate ChatGPT send button. Please make sure you are signed in."

VARIABLES
  \* Broker (WebModelService)
  window,                \* this.window: 0 is null, else the window's number
  isReady,               \* this.isReady
  creatingWindowPromise, \* 0 is null, else the window whose createWindow() it is
  pendingRequests,       \* requestId -> senderId, 0 when absent
  waiters,               \* ensureWindow() calls suspended on a createWindow() promise
  \* session host (Electron BrowserWindow)
  liveWindows,           \* windows constructed and not closed
  winCount,              \* windows constructed so far
  loadState,             \* per window: the loadURL promise
  domLoaded,             \* windows whose page fired DOMContentLoaded
  \* channels
  down,                  \* Broker -> Observer: prompt and cancel messages, in order
  up,                    \* Observer -> Broker: ready, chunk and error, in order
  stream,                \* Broker -> each caller context: WebModel_Stream events
  cancelReq,             \* Facade -> Broker: cancel invocations in flight
  \* Observer (preload script of the live window)
  ACTIVE_REQUESTS,       \* requestId -> RequestState, NoState when absent
  submitting,            \* requestIds whose submitPrompt awaits the input area
  \* the automated page and the wall clock
  pageContent, pageStop, pageSteps, now,
  \* Facade (WebModelClient), one per caller context
  initialized,           \* this.initialized
  initCall,              \* this.initializePromise and the Broker call behind it
  listeners,             \* requestId -> callbacks (named by their op), 0 when absent
  \* callers
  pc, opCtx, destroyed, cancelCalls,
  \* history
  cbLog,                 \* per op: the calls made to its onUpdate / onError
  emitted,               \* per request id: the events the Observer sent
  late                   \* request ids of which handleEvent was handed a stray event

brokerVars == <<window, isReady, creatingWindowPromise, pendingRequests, waiters>>
hostVars == <<liveWindows, winCount, loadState, domLoaded>>
chanVars == <<down, up, stream, cancelReq>>
obsVars == <<ACTIVE_REQUESTS, submitting>>
pageVars == <<pageContent, pageStop, pageSteps>>
facadeVars == <<initialized, initCall, listeners>>
callerVars == <<pc, opCtx, destroyed, cancelCalls>>
histVars == <<cbLog, emitted, late>>
vars == <<brokerVars, hostVars, chanVars, obsVars, pageVars, now, facadeVars,
          callerVars, histVars>>

NoState == [lastContent |-> None, lastEmit |-> 0, done |-> FALSE, interval |-> FALSE]

\* JavaScript truthiness of an optional string
Truthy(s) == s # None /\ s # ""

Init ==
  /\ window = 0
  /\ isReady = FALSE
  /\ creatingWindowPromise = 0
  /\ pendingRequests = [i \in Ids |-> 0]
  /\ waiters = <<>>
  /\ liveWindows = {}
  /\ winCount = 0
  /\ loadState = [w \in Wins |-> "none"]
  /\ domLoaded = {}
  /\ down = <<>>
  /\ up = <<>>
  /\ stream = [c \in Ctx |-> <<>>]
  /\ cancelReq = <<>>
  /\ ACTIVE_REQUESTS = [i \in Ids |-> NoState]
  /\ submitting = {}
  /\ pageContent = ""
  /\ pageStop = FALSE
  /\ pageSteps = 0
  /\ now = ClockStep
  /\ initialized = [c \in Ctx |-> FALSE]
  /\ initCall = [c \in Ctx |-> "none"]
  /\ listeners = [c \in Ctx |-> [i \in Ids |-> 0]]
  /\ pc = [o \in Ops |-> "idle"]
  /\ opCtx = [o \in Ops |-> 0]
  /\ destroyed = {}
  /\ cancelCalls = 0
  /\ cbLog = [o \in Ops |-> <<>>]
  /\ emitted = [i \in Ids |-> <<>>]
  /\ late = {}

\* ------------------------------------------------------------- messages
ReadyMsg(w) ==
  [type |-> "ready", win |-> w, requestId |-> EmptyId, content |-> None,
   done |-> FALSE, error |-> None]

ChunkMsg(w, id, content, done) ==
  [type |-> "chunk", win |-> w, requestId |-> id, content |-> content,
   done |-> done, error |-> None]

ErrorMsg(w, id, message) ==
  [type |-> "error", win |-> w, requestId |-> id, content |-> None,
   done |-> FALSE, error |-> message]

\* the payload as the Broker re-addresses it: the same fields
Payload(m) ==
  [requestId |-> m.requestId, content |-> m.content, done |-> m.done, error |-> m.error]

\* ------------------------------------------------- Broker: the session
\* ensureWindow's three ways: the window is there, a creation is awaited, or
\* this call creates
EnsureWindowBranchNoReuse ==
  IF creatingWindowPromise # 0 THEN "await" ELSE "create"

EnsureWindowBranch ==
  IF window # 0 THEN "return"
  ELSE IF creatingWindowPromise # 0 THEN "await"
  ELSE "create"

\* initialize() after ensureWindow has returned
InitializeResult(ok) ==
  IF ~ok THEN "rejected" ELSE IF isReady THEN "resolvedT" ELSE "resolvedF"

\* sendMessage() that goes on although ensureWindow threw
SendMessageBodyIgnoringFailure(b, op, ok) ==
  IF window = 0
  THEN [b EXCEPT !.pc[op] = "rejectedReply"]
  ELSE [b EXCEPT !.pending[op] = opCtx[op],
                 !.down = Append(@, [type |-> "prompt", requestId |-> op, win |-> window,
                                       hadListener |-> FALSE]),
                 !.pc[op] = "replied"]

\* sendMessage() after ensureWindow has returned: b holds the Broker's pending
\* map, the downstream channel and the callers' invocations
SendMessageBody(b, op, ok) ==
  IF ~ok \/ window = 0
  THEN [b EXCEPT !.pc[op] = "rejectedReply"]
  ELSE [b EXCEPT !.pending[op] = opCtx[op],
                 !.down = Append(@, [type |-> "prompt", requestId |-> op, win |-> window,
                                       hadListener |-> FALSE]),
                 !.pc[op] = "replied"]

Resume(b, w, ok) ==
  IF w.kind = "init"
  THEN [b EXCEPT !.initCall[w.who] = InitializeResult(ok)]
  ELSE SendMessageBody(b, w.who, ok)

RECURSIVE ResumeAll(_, _, _)
ResumeAll(b, ws, ok) ==
  IF ws = <<>> THEN b ELSE ResumeAll(Resume(b, Head(ws), ok), Tail(ws), ok)

BrokerState ==
  [pending |-> pendingRequests, down |-> down, initCall |-> initCall, pc |-> pc]

SetBroker(b) ==
  /\ pendingRequests' = b.pending
  /\ down' = b.down
  /\ initCall' = b.initCall
  /\ pc' = b.pc

\* createWindow up to its await of loadURL
CreateWindow ==
  /\ winCount < MaxWin
  /\ winCount' = winCount + 1
  /\ isReady' = FALSE
  /\ window' = winCount + 1
  /\ liveWindows' = liveWindows \cup {winCount + 1}
  /\ loadState' = [loadState EXCEPT ![winCount + 1] = "loading"]
  /\ creatingWindowPromise' = winCount + 1

\* one Broker call (initialize or sendMessage) from its entry to its first
\* suspension or to its return
BrokerCall(kind, who) ==
  LET branch == EnsureWindowBranch
      parked(b) == IF kind = "init" THEN [b EXCEPT !.initCall[who] = "waiting"]
                   ELSE [b EXCEPT !.pc[who] = "waiting"]
  IN  CASE branch = "return" ->
             /\ SetBroker(Resume(BrokerState, [kind |-> kind, who |-> who], TRUE))
             /\ UNCHANGED <<window, isReady, creatingWindowPromise, waiters, hostVars>>
        [] branch = "await" ->
             /\ waiters' = Append(waiters, [kind |-> kind, who |-> who,
                                            win |-> creatingWindowPromise, creator |-> FALSE])
             /\ SetBroker(parked(BrokerState))
             /\ UNCHANGED <<window, isReady, creatingWindowPromise, hostVars>>
        [] branch = "create" ->
             /\ CreateWindow
             /\ waiters' = Append(waiters, [kind |-> kind, who |-> who,
                                            win |-> winCount + 1, creator |-> TRUE])
             /\ SetBroker(parked(BrokerState))
             /\ UNCHANGED domLoaded

BrokerInitialize(c) ==
  /\ initCall[c] = "invoked"
  /\ BrokerCall("init", c)
  /\ UNCHANGED <<up, stream, cancelReq, obsVars, pageVars, now, initialized, listeners,
                 opCtx, destroyed, cancelCalls, histVars>>

BrokerSendMessage(op) ==
  /\ pc[op] = "invoked"
  /\ BrokerCall("send", op)
  /\ UNCHANGED <<up, stream, cancelReq, obsVars, pageVars, now, initialized, listeners,
                 opCtx, destroyed, cancelCalls, histVars>>

\* the loadURL promise of window w settles: createWindow returns or throws, the
\* creator's finally clears creatingWindowPromise, every call awaiting it resumes
LoadSettled(w, ok) ==
  /\ loadState[w] = "loading"
  /\ loadState' = [loadState EXCEPT ![w] = IF ok THEN "loaded" ELSE "failed"]
  /\ LET mine == SelectSeq(waiters, LAMBDA x : x.win = w)
     IN  /\ waiters' = SelectSeq(waiters, LAMBDA x : x.win # w)
         /\ creatingWindowPromise' =
              IF \E k \in 1..Len(mine) : mine[k].creator THEN 0 ELSE creatingWindowPromise
         /\ SetBroker(ResumeAll(BrokerState, mine, ok))
  /\ UNCHANGED <<window, isReady, liveWindows, winCount, domLoaded, up, stream, cancelReq,
                 obsVars, pageVars, now, initialized, listeners, opCtx, destroyed,
                 cancelCalls, histVars>>

\* did-finish-load follows the page's DOMContentLoaded
LoadFinish(w) ==
  /\ w \in liveWindows
  /\ w \in domLoaded
  /\ LoadSettled(w, TRUE)

\* did-fail-load, or the window destroyed while loading
LoadFail(w) == LoadSettled(w, FALSE)

\* the preload script's DOMContentLoaded listener
DOMContentLoaded(w) ==
  /\ w \in liveWindows
  /\ loadState[w] = "loading"
  /\ w \notin domLoaded
  /\ domLoaded' = domLoaded \cup {w}
  /\ up' = Append(up, ReadyMsg(w))
  /\ UNCHANGED <<brokerVars, liveWindows, winCount, loadState, down, stream, cancelReq,
                 obsVars, pageVars, now, facadeVars, callerVars, histVars>>

\* the window's 'closed' handler; the page, its preload script and the messages
\* addressed to it go with the window
WindowClosed(w) ==
  /\ w \in liveWindows
  /\ winCount < MaxWin
  /\ liveWindows' = liveWindows \ {w}
  /\ window' = 0
  /\ isReady' = FALSE
  /\ down' = <<>>
  /\ ACTIVE_REQUESTS' = [i \in Ids |-> NoState]
  /\ submitting' = {}
  /\ pageContent' = ""
  /\ pageStop' = FALSE
  /\ UNCHANGED <<creatingWindowPromise, pendingRequests, waiters, winCount, loadState,
                 domLoaded, up, stream, cancelReq, pageSteps, now, facadeVars, callerVars,
                 histVars>>

\* ------------------------------------------- Broker: upstream and cancel
BrokerReady ==
  /\ up # <<>>
  /\ Head(up).type = "ready"
  /\ up' = Tail(up)
  /\ isReady' = TRUE
  /\ UNCHANGED <<window, creatingWindowPromise, pendingRequests, waiters, hostVars, down,
                 stream, cancelReq, obsVars, pageVars, now, facadeVars, callerVars,
                 histVars>>

\* the caller context forwardChunk addresses
ForwardTargetFirst(payload) ==
  IF pendingRequests[payload.requestId] = 0 THEN 0 ELSE 1

ForwardTarget(payload) == pendingRequests[payload.requestId]

\* whether forwardChunk deletes the pending record after forwarding
RetireOnErrorOnly(payload) == Truthy(payload.error)

RetireOnForward(payload) == payload.done \/ Truthy(payload.error)

ForwardChunk(payload) ==
  LET target == ForwardTarget(payload)
  IN  IF target = 0
      THEN UNCHANGED <<pendingRequests, stream>>
      ELSE IF target \in destroyed
      THEN /\ pendingRequests' = [pendingRequests EXCEPT ![payload.requestId] = 0]
           /\ UNCHANGED stream
      ELSE /\ stream' = [stream EXCEPT ![target] = Append(@, payload)]
           /\ pendingRequests' =
                IF RetireOnForward(payload)
                THEN [pendingRequests EXCEPT ![payload.requestId] = 0]
                ELSE pendingRequests

BrokerChunk ==
  /\ up # <<>>
  /\ Head(up).type = "chunk"
  /\ up' = Tail(up)
  /\ ForwardChunk(Payload(Head(up)))
  /\ UNCHANGED <<window, isReady, creatingWindowPromise, waiters, hostVars, down,
                 cancelReq, obsVars, pageVars, now, facadeVars, callerVars, histVars>>

BrokerError ==
  /\ up # <<>>
  /\ Head(up).type = "error"
  /\ up' = Tail(up)
  /\ ForwardChunk([Payload(Head(up)) EXCEPT
                     !.error = IF @ = None THEN "Unknown error" ELSE @,
                     !.done = TRUE])
  /\ UNCHANGED <<window, isReady, creatingWindowPromise, waiters, hostVars, down,
                 cancelReq, obsVars, pageVars, now, facadeVars, callerVars, histVars>>

BrokerCancel ==
  /\ cancelReq # <<>>
  /\ cancelReq' = Tail(cancelReq)
  /\ LET requestId == Head(cancelReq).requestId
     IN  IF requestId = EmptyId
         THEN UNCHANGED <<down, pendingRequests>>
         ELSE /\ down' = IF window # 0
                         THEN Append(down, [type |-> "cancel", requestId |-> requestId,
                                            win |-> window,
                                            hadListener |-> Head(cancelReq).hadListener])
                         ELSE down
              /\ pendingRequests' = [pendingRequests EXCEPT ![requestId] = 0]
  /\ UNCHANGED <<window, isReady, creatingWindowPromise, waiters, hostVars, up, stream,
                 obsVars, pageVars, now, facadeVars, callerVars, histVars>>

\* ---------------------------------------------------------- Observer
\* the window whose preload script is running
ObserverWindow == IF window \in liveWindows THEN window ELSE CHOOSE w \in liveWindows : TRUE

Emit(m) ==
  /\ up' = Append(up, m)
  /\ emitted' = [emitted EXCEPT ![m.requestId] =
                   Append(@, [type |-> m.type, content |-> m.content, done |-> m.done])]

\* startPolling up to setInterval
StartPolling(id) ==
  ACTIVE_REQUESTS' = [ACTIVE_REQUESTS EXCEPT ![id] =
    [lastContent |-> "", lastEmit |-> 0, done |-> FALSE, interval |-> TRUE]]

\* cleanupRequest
CleanupRequest(id) ==
  ACTIVE_REQUESTS' = [ACTIVE_REQUESTS EXCEPT ![id] = NoState]

\* submitPrompt once waitForSelector has found the input area, and the catch of
\* the prompt handler when the send button is missing
SubmitFound(id, sendButton) ==
  IF sendButton
  THEN /\ StartPolling(id)
       /\ UNCHANGED <<up, emitted>>
  ELSE /\ CleanupRequest(id)
       /\ Emit(ErrorMsg(ObserverWindow, id, NoSendButton))

\* ipcRenderer.on('web-model:prompt'): the input area is there at once, or
\* waitForSelector starts its 200 ms retries
ObsPrompt ==
  /\ down # <<>>
  /\ Head(down).type = "prompt"
  /\ down' = Tail(down)
  /\ LET id == Head(down).requestId
     IN  \E input \in BOOLEAN, sendButton \in BOOLEAN :
           IF input
           THEN /\ SubmitFound(id, sendButton)
                /\ UNCHANGED submitting
           ELSE /\ submitting' = submitting \cup {id}
                /\ UNCHANGED <<ACTIVE_REQUESTS, up, emitted>>
  /\ UNCHANGED <<brokerVars, hostVars, stream, cancelReq, pageVars, now, facadeVars,
                 callerVars, cbLog, late>>

\* a retry of waitForSelector finds the input area
ObsInputFound(id) ==
  /\ id \in submitting
  /\ submitting' = submitting \ {id}
  /\ \E sendButton \in BOOLEAN : SubmitFound(id, sendButton)
  /\ UNCHANGED <<brokerVars, hostVars, down, stream, cancelReq, pageVars, now, facadeVars,
                 callerVars, cbLog, late>>

\* waitForSelector gives up after its timeout
ObsInputTimeout(id) ==
  /\ id \in submitting
  /\ submitting' = submitting \ {id}
  /\ CleanupRequest(id)
  /\ Emit(ErrorMsg(ObserverWindow, id, InputTimeout))
  /\ UNCHANGED <<brokerVars, hostVars, down, stream, cancelReq, pageVars, now, facadeVars,
                 callerVars, cbLog, late>>

\* whether the sampled text is emitted as a chunk
ChangedOrRepeated(state) == pageContent # ""

Changed(state) == pageContent # "" /\ pageContent # state.lastContent

\* the sample taken by one run of the interval callback
Sampled(state) ==
  IF Changed(state)
  THEN [state EXCEPT !.lastContent = pageContent, !.lastEmit = now]
  ELSE state

\* the completion test with a quiet period that need not be exceeded
QuietOrEqual(state) ==
  /\ ~pageStop
  /\ state.lastEmit > 0
  /\ now - state.lastEmit >= QuietPeriod

\* the completion test of the interval callback
Quiet(state) ==
  /\ ~pageStop
  /\ state.lastEmit > 0
  /\ now - state.lastEmit > QuietPeriod

\* the callback's early return: nothing sampled and nothing emitted so far
EarlyReturnOnEmpty(state) == pageContent = ""

EarlyReturn(state) == pageContent = "" /\ state.lastEmit = 0

\* the content of the done=true event
FinalContentSampled(state) == pageContent

FinalContent(state) == state.lastContent

\* the request's record once the callback has declared completion: state.done
\* is set and cleanupRequest clears the timer and deletes the record
CompletedKeepPolling(state) == state

Completed(state) == NoState

\* one run of the setInterval callback of request id
Tick(id) ==
  /\ ACTIVE_REQUESTS[id].interval
  /\ LET state == ACTIVE_REQUESTS[id]
         s1 == Sampled(state)
         chunk == IF Changed(state)
                  THEN <<ChunkMsg(ObserverWindow, id, pageContent, FALSE)>>
                  ELSE <<>>
         finish == /\ ~s1.done
                   /\ ~EarlyReturn(s1)
                   /\ Quiet(s1)
         final == IF finish
                  THEN <<ChunkMsg(ObserverWindow, id, FinalContent(s1), TRUE)>>
                  ELSE <<>>
         sent == chunk \o final
     IN  /\ ACTIVE_REQUESTS' = [ACTIVE_REQUESTS EXCEPT ![id] =
                                IF finish THEN Completed(s1) ELSE s1]
         /\ up' = up \o sent
         /\ emitted' = [emitted EXCEPT ![id] = @ \o
              [k \in 1..Len(sent) |->
                 [type |-> sent[k].type, content |-> sent[k].content, done |-> sent[k].done]]]
  /\ UNCHANGED <<brokerVars, hostVars, down, stream, cancelReq, submitting, pageVars, now,
                 facadeVars, callerVars, cbLog, late>>

\* ipcRenderer.on('web-model:cancel'): cancelRequest clicks the stop button when
\* the page shows one, which ends the generation in progress, then cleans up
ObsCancel ==
  /\ down # <<>>
  /\ Head(down).type = "cancel"
  /\ down' = Tail(down)
  /\ pageStop' = FALSE
  /\ CleanupRequest(Head(down).requestId)
  /\ UNCHANGED <<brokerVars, hostVars, up, stream, cancelReq, submitting, pageContent,
                 pageSteps, now, facadeVars, callerVars, histVars>>

\* ------------------------------------------- the page and the wall clock
Polling == \E i \in Ids : ACTIVE_REQUESTS[i].interval

\* the page shows another answer text or toggles its stop button
PageChange(c, s) ==
  /\ Polling
  /\ pageSteps < MaxPageSteps
  /\ <<c, s>> # <<pageContent, pageStop>>
  /\ pageContent' = c
  /\ pageStop' = s
  /\ pageSteps' = pageSteps + 1
  /\ UNCHANGED <<brokerVars, hostVars, chanVars, obsVars, now, facadeVars, callerVars,
                 histVars>>

AdvanceClock ==
  /\ Polling
  /\ now + ClockStep <= MaxNow
  /\ now' = now + ClockStep
  /\ UNCHANGED <<brokerVars, hostVars, chanVars, obsVars, pageVars, facadeVars,
                 callerVars, histVars>>

\* ------------------------------------------------------------- Facade
\* ensureInitialized finds this.initializePromise set and awaits it
JoinsAttemptNever(c) == FALSE

JoinsAttempt(c) == initCall[c] # "none"

\* sendMessage up to its first suspension: ensureInitialized returns at once,
\* starts the Broker's initialize, or joins the attempt under way
FacadeSendMessage(op, c) ==
  /\ pc[op] = "idle"
  /\ \A o \in Ops : o < op => pc[o] # "idle"
  /\ c \notin destroyed
  /\ opCtx' = [opCtx EXCEPT ![op] = c]
  /\ IF initialized[c]
     THEN /\ pc' = [pc EXCEPT ![op] = "invoked"]
          /\ UNCHANGED initCall
     ELSE /\ pc' = [pc EXCEPT ![op] = "awaitInit"]
          /\ initCall' = [initCall EXCEPT ![c] = IF JoinsAttempt(c) THEN @ ELSE "invoked"]
  /\ UNCHANGED <<brokerVars, hostVars, chanVars, obsVars, pageVars, now, initialized,
                 listeners, destroyed, cancelCalls, histVars>>

\* the Broker's initialize settles: .catch, .finally, then every sendMessage
\* awaiting ensureInitialized stores the result and invokes the Broker
FacadeInitSettled(c) ==
  /\ c \notin destroyed
  /\ initCall[c] \in {"resolvedT", "resolvedF", "rejected"}
  /\ initialized' = [initialized EXCEPT ![c] = (initCall[c] = "resolvedT")]
  /\ initCall' = [initCall EXCEPT ![c] = "none"]
  /\ pc' = [o \in Ops |-> IF pc[o] = "awaitInit" /\ opCtx[o] = c THEN "invoked" ELSE pc[o]]
  /\ UNCHANGED <<brokerVars, hostVars, chanVars, obsVars, pageVars, now, listeners,
                 opCtx, destroyed, cancelCalls, histVars>>

\* the Broker's sendMessage settles: the listener is stored, or the call throws
FacadeSendSettled(op) ==
  /\ opCtx[op] \notin destroyed
  /\ pc[op] \in {"replied", "rejectedReply"}
  /\ IF pc[op] = "replied"
     THEN /\ listeners' = [listeners EXCEPT ![opCtx[op]][op] = op]
          /\ pc' = [pc EXCEPT ![op] = "returned"]
     ELSE /\ pc' = [pc EXCEPT ![op] = "rejected"]
          /\ UNCHANGED listeners
  /\ UNCHANGED <<brokerVars, hostVars, chanVars, obsVars, pageVars, now, initialized,
                 initCall, opCtx, destroyed, cancelCalls, histVars>>

\* the callbacks handleEvent looks up
ListenerFor(c, payload) == listeners[c][payload.requestId]

\* what handleEvent does with the listener record after the callbacks
RetireNever(payload) == FALSE

Retire(payload) == Truthy(payload.error) \/ payload.done

HandleEvent(c, payload) ==
  LET listener == ListenerFor(c, payload)
      call == IF Truthy(payload.error)
              THEN <<[kind |-> "error", requestId |-> payload.requestId,
                      content |-> payload.error, done |-> FALSE]>>
              ELSE IF payload.content # None
              THEN <<[kind |-> "update", requestId |-> payload.requestId,
                      content |-> payload.content, done |-> payload.done]>>
              ELSE <<>>
  IN  IF listener = 0
      THEN UNCHANGED <<listeners, cbLog>>
      ELSE /\ cbLog' = [cbLog EXCEPT ![listener] = @ \o call]
           /\ listeners' = IF Retire(payload)
                           THEN [listeners EXCEPT ![c][payload.requestId] = 0]
                           ELSE listeners

FacadeHandleEvent(c) ==
  /\ c \notin destroyed
  /\ stream[c] # <<>>
  /\ stream' = [stream EXCEPT ![c] = Tail(@)]
  /\ HandleEvent(c, Head(stream[c]))
  /\ UNCHANGED <<brokerVars, hostVars, down, up, cancelReq, obsVars, pageVars, now,
                 initialized, initCall, callerVars, emitted, late>>

\* a request the Facade has finished with: a terminal callback was made, or
\* cancel removed its listener
Finished(op) ==
  \E k \in 1..Len(cbLog[op]) :
    \/ cbLog[op][k].kind \in {"error", "cancel"}
    \/ cbLog[op][k].kind = "update" /\ cbLog[op][k].done

StrayPayloads(id) ==
  {[requestId |-> id, content |-> "a", done |-> FALSE, error |-> None],
   [requestId |-> id, content |-> "a", done |-> TRUE, error |-> None],
   [requestId |-> id, content |-> None, done |-> TRUE, error |-> InputTimeout]}

\* the stream channel hands handleEvent a late or duplicate event of a request
\* the Facade has finished with
FacadeLateEvent(c, payload) ==
  /\ c \notin destroyed
  /\ payload.requestId \in Ops
  /\ opCtx[payload.requestId] = c
  /\ Finished(payload.requestId)
  /\ payload.requestId \notin late
  /\ late' = late \cup {payload.requestId}
  /\ HandleEvent(c, payload)
  /\ UNCHANGED <<brokerVars, hostVars, chanVars, obsVars, pageVars, now,
                 initialized, initCall, callerVars, emitted>>

\* cancel's removal of the listener record
CancelKeepsListener(c, id) == listeners

CancelListeners(c, id) == [listeners EXCEPT ![c][id] = 0]

\* the request ids a caller in context c can pass to cancel
Known(c) == {o \in Ops : opCtx[o] = c /\ pc[o] = "returned"}

FacadeCancel(c, id) ==
  /\ c \notin destroyed
  /\ \E o \in Ops : opCtx[o] = c
  /\ cancelCalls < MaxCancels
  /\ cancelCalls' = cancelCalls + 1
  /\ id \in Known(c) \cup {EmptyId, UnknownId}
  /\ IF id = EmptyId
     THEN UNCHANGED <<cancelReq, listeners, cbLog>>
     ELSE /\ cancelReq' = Append(cancelReq, [requestId |-> id,
                                             hadListener |-> listeners[c][id] # 0])
          /\ listeners' = CancelListeners(c, id)
          /\ cbLog' = IF listeners[c][id] # 0
                      THEN [cbLog EXCEPT ![listeners[c][id]] =
                              Append(@, [kind |-> "cancel", requestId |-> id,
                                         content |-> None, done |-> FALSE])]
                      ELSE cbLog
  /\ UNCHANGED <<brokerVars, hostVars, down, up, stream, obsVars, pageVars, now,
                 initialized, initCall, pc, opCtx, destroyed, emitted, late>>

\* a caller context terminates; what was addressed to it is lost
CtxDestroyed(c) ==
  /\ c \notin destroyed
  /\ \E o \in Ops : opCtx[o] = c
  /\ Cardinality(destroyed) < MaxDestroyed
  /\ destroyed' = destroyed \cup {c}
  /\ stream' = [stream EXCEPT ![c] = <<>>]
  /\ UNCHANGED <<brokerVars, hostVars, down, up, cancelReq, obsVars, pageVars, now,
                 facadeVars, pc, opCtx, cancelCalls, histVars>>

\* ------------------------------------------------------ specification
\* everything but the callers' sendMessage invocations
Handlers ==
  \/ \E c \in Ctx : FacadeInitSettled(c)
  \/ \E op \in Ops : FacadeSendSettled(op)
  \/ \E c \in Ctx : FacadeHandleEvent(c)
  \/ \E c \in Ctx, id \in Ops : \E payload \in StrayPayloads(id) : FacadeLateEvent(c, payload)
  \/ \E c \in Ctx, id \in Ids \cup {EmptyId} : FacadeCancel(c, id)
  \/ \E c \in Ctx : CtxDestroyed(c)
  \/ \E c \in Ctx : BrokerInitialize(c)
  \/ \E op \in Ops : BrokerSendMessage(op)
  \/ BrokerReady
  \/ BrokerChunk
  \/ BrokerError
  \/ BrokerCancel
  \/ \E w \in Wins : LoadFinish(w)
  \/ \E w \in Wins : LoadFail(w)
  \/ \E w \in Wins : DOMContentLoaded(w)
  \/ \E w \in Wins : WindowClosed(w)
  \/ ObsPrompt
  \/ \E id \in Ids : ObsInputFound(id)
  \/ \E id \in Ids : ObsInputTimeout(id)
  \/ \E id \in Ids : Tick(id)
  \/ ObsCancel
  \/ \E c \in Contents \cup {""}, s \in BOOLEAN : PageChange(c, s)
  \/ AdvanceClock

Next ==
  \/ \E op \in Ops, c \in Ctx : FacadeSendMessage(op, c)
  \/ Handlers

\* the whole system
Spec == Init /\ [][Next]_vars

\* StreamOps requests end to end: the load succeeds or the window closes,
\* the callers' contexts live on
StreamNext ==
  \/ \E op \in 1..StreamOps, c \in Ctx : FacadeSendMessage(op, c)
  \/ \E c \in Ctx : FacadeInitSettled(c)
  \/ \E op \in Ops : FacadeSendSettled(op)
  \/ \E c \in Ctx : FacadeHandleEvent(c)
  \/ \E c \in Ctx, id \in Ops : \E payload \in StrayPayloads(id) : FacadeLateEvent(c, payload)
  \/ \E c \in Ctx, id \in Ids \cup {EmptyId} : FacadeCancel(c, id)
  \/ \E c \in Ctx : BrokerInitialize(c)
  \/ \E op \in Ops : BrokerSendMessage(op)
  \/ BrokerReady
  \/ BrokerChunk
  \/ BrokerError
  \/ BrokerCancel
  \/ \E w \in Wins : LoadFinish(w)
  \/ \E w \in Wins : DOMContentLoaded(w)
  \/ \E w \in Wins : WindowClosed(w)
  \/ ObsPrompt
  \/ \E id \in Ids : ObsInputFound(id)
  \/ \E id \in Ids : ObsInputTimeout(id)
  \/ \E id \in Ids : Tick(id)
  \/ ObsCancel
  \/ \E c \in Contents \cup {""}, s \in BOOLEAN : PageChange(c, s)
  \/ AdvanceClock

SpecStream == Init /\ [][StreamNext]_vars

\* concurrent requests of several caller contexts on one session, up to the
\* Observer's chunk and error events
RoutingNext ==
  \/ \E op \in Ops, c \in Ctx : FacadeSendMessage(op, c)
  \/ \E c \in Ctx : FacadeInitSettled(c)
  \/ \E op \in Ops : FacadeSendSettled(op)
  \/ \E c \in Ctx : FacadeHandleEvent(c)
  \/ \E c \in Ctx : CtxDestroyed(c)
  \/ \E c \in Ctx : BrokerInitialize(c)
  \/ \E op \in Ops : BrokerSendMessage(op)
  \/ BrokerReady
  \/ BrokerChunk
  \/ BrokerError
  \/ \E w \in Wins : LoadFinish(w)
  \/ \E w \in Wins : DOMContentLoaded(w)
  \/ ObsPrompt
  \/ \E id \in Ids : ObsInputFound(id)
  \/ \E id \in Ids : ObsInputTimeout(id)
  \/ \E id \in Ids : Tick(id)
  \/ \E c \in Contents \cup {""}, s \in BOOLEAN : PageChange(c, s)

SpecRouting == Init /\ [][RoutingNext]_vars

\* the session: the callers' invocations, the Broker's initialize and
\* sendMessage, the window and its page load
SessionNext ==
  \/ \E op \in Ops, c \in Ctx : FacadeSendMessage(op, c)
  \/ \E c \in Ctx : FacadeInitSettled(c)
  \/ \E op \in Ops : FacadeSendSettled(op)
  \/ \E c \in Ctx : BrokerInitialize(c)
  \/ \E op \in Ops : BrokerSendMessage(op)
  \/ BrokerReady
  \/ \E w \in Wins : LoadFinish(w)
  \/ \E w \in Wins : LoadFail(w)
  \/ \E w \in Wins : DOMContentLoaded(w)
  \/ \E w \in Wins : WindowClosed(w)

SpecSession == Init /\ [][SessionNext]_vars

\* one request that is neither cancelled nor loses its session, with the poll
\* timer and the wall clock going on: setInterval fires its callback every
\* 400 ms for as long as the timer is set, and time passes
LiveNext ==
  \/ \E op \in 1..StreamOps, c \in Ctx : FacadeSendMessage(op, c)
  \/ \E c \in Ctx : FacadeInitSettled(c)
  \/ \E op \in Ops : FacadeSendSettled(op)
  \/ \E c \in Ctx : FacadeHandleEvent(c)
  \/ \E c \in Ctx : BrokerInitialize(c)
  \/ \E op \in Ops : BrokerSendMessage(op)
  \/ BrokerReady
  \/ BrokerChunk
  \/ BrokerError
  \/ \E w \in Wins : LoadFinish(w)
  \/ \E w \in Wins : DOMContentLoaded(w)
  \/ ObsPrompt
  \/ \E id \in Ids : ObsInputFound(id)
  \/ \E id \in Ids : ObsInputTimeout(id)
  \/ \E id \in Ids : Tick(id)
  \/ \E c \in Contents \cup {""}, s \in BOOLEAN : PageChange(c, s)
  \/ AdvanceClock

SpecLive ==
  /\ Init
  /\ [][LiveNext]_vars
  /\ \A id \in Ids : WF_vars(Tick(id))
  /\ WF_vars(AdvanceClock)

\* one request end to end on a session that stays, its caller cancelling or
\* its caller's context terminating
RetireNext ==
  \/ \E op \in 1..StreamOps, c \in Ctx : FacadeSendMessage(op, c)
  \/ \E c \in Ctx : FacadeInitSettled(c)
  \/ \E op \in Ops : FacadeSendSettled(op)
  \/ \E c \in Ctx : FacadeHandleEvent(c)
  \/ \E c \in Ctx, id \in Ids \cup {EmptyId} : FacadeCancel(c, id)
  \/ \E c \in Ctx : CtxDestroyed(c)
  \/ \E c \in Ctx : BrokerInitialize(c)
  \/ \E op \in Ops : BrokerSendMessage(op)
  \/ BrokerReady
  \/ BrokerChunk
  \/ BrokerError
  \/ BrokerCancel
  \/ \E w \in Wins : LoadFinish(w)
  \/ \E w \in Wins : DOMContentLoaded(w)
  \/ ObsPrompt
  \/ \E id \in Ids : ObsInputFound(id)
  \/ \E id \in Ids : ObsInputTimeout(id)
  \/ \E id \in Ids : Tick(id)
  \/ ObsCancel
  \/ \E c \in Contents \cup {""}, s \in BOOLEAN : PageChange(c, s)
  \/ AdvanceClock

SpecRetire == Init /\ [][RetireNext]_vars

\* two requests of one caller context polling the one page at the same time,
\* either of them cancelled; their events stay in the upstream channel
IsolationNext ==
  \/ \E op \in Ops : FacadeSendMessage(op, 1)
  \/ \E c \in Ctx : FacadeInitSettled(c)
  \/ \E op \in Ops : FacadeSendSettled(op)
  \/ \E c \in Ctx, id \in Ops : FacadeCancel(c, id)
  \/ \E c \in Ctx : BrokerInitialize(c)
  \/ \E op \in Ops : BrokerSendMessage(op)
  \/ BrokerReady
  \/ BrokerCancel
  \/ \E w \in Wins : LoadFinish(w)
  \/ \E w \in Wins : DOMContentLoaded(w)
  \/ ObsPrompt
  \/ \E id \in Ids : ObsInputFound(id)
  \/ \E id \in Ids : Tick(id)
  \/ ObsCancel
  \/ \E c \in Contents \cup {""}, s \in BOOLEAN : PageChange(c, s)
  \/ AdvanceClock

SpecIsolation == Init /\ [][IsolationNext]_vars

\* ============================================================== claims
IsCallback(e) == e.kind \in {"update", "error"}

IsTerminal(e) == e.kind = "error" \/ (e.kind = "update" /\ e.done)

\* C1: a request's callbacks receive at most one terminal call (onUpdate with
\* done=true, or onError), and no onUpdate or onError call follows it, whatever
\* events handleEvent is handed afterwards.
C1_OneTerminalThenSilence ==
  \A op \in Ops : \A k \in 1..Len(cbLog[op]) :
    IsTerminal(cbLog[op][k]) =>
      \A j \in (k + 1)..Len(cbLog[op]) : ~IsCallback(cbLog[op][j])

\* a terminal call was made and a stray event of the same request came after it
C1_Witness ==
  \E op \in Ops :
    /\ op \in late
    /\ \E k \in 1..Len(cbLog[op]) : IsTerminal(cbLog[op][k])

\* C8: once cancel has removed a request's listener, no onUpdate or onError call
\* is made for it again, whatever the Observer still emits and the Broker still
\* forwards.
C8_SilentAfterCancel ==
  \A op \in Ops : \A k \in 1..Len(cbLog[op]) :
    cbLog[op][k].kind = "cancel" =>
      \A j \in (k + 1)..Len(cbLog[op]) : ~IsCallback(cbLog[op][j])

\* the listener was cancelled after a call had been made, and handleEvent has
\* since been handed another event of the request, which made no call
C8_Witness ==
  \E op \in Ops :
    /\ Len(cbLog[op]) > 1
    /\ cbLog[op][Len(cbLog[op])].kind = "cancel"
    /\ op \in late

\* C3: an event tagged with request id A is forwarded only to the caller context
\* that issued A, and only the callbacks registered for A are called with it.
C3_NoCrossDelivery ==
  /\ \A c \in Ctx : \A k \in 1..Len(stream[c]) : opCtx[stream[c][k].requestId] = c
  /\ \A op \in Ops : \A k \in 1..Len(cbLog[op]) :
       IsCallback(cbLog[op][k]) => cbLog[op][k].requestId = op

\* two requests of different contexts in flight at once, each with a call made
C3_Witness ==
  /\ opCtx[1] \in Ctx /\ opCtx[2] \in Ctx
  /\ opCtx[1] # opCtx[2]
  /\ listeners[opCtx[1]][1] # 0 /\ cbLog[1] # <<>>
  /\ listeners[opCtx[2]][2] # 0 /\ cbLog[2] # <<>>

\* C4: Broker calls that find no session make one creation attempt between
\* them: no second window is constructed while one is alive or being created,
\* and once a call has reached the Broker a window has been constructed.
BrokerEntered ==
  \/ \E c \in Ctx : initCall[c] \notin {"none", "invoked"}
  \/ \E op \in Ops : pc[op] \notin {"idle", "awaitInit", "invoked"}

C4_OneCreation ==
  /\ Cardinality(liveWindows) <= 1
  /\ Cardinality({w \in Wins : loadState[w] = "loading"}) <= 1
  /\ BrokerEntered => winCount >= 1
  /\ (BrokerEntered /\ liveWindows = 1..winCount) => winCount = 1

\* the initialize calls of two caller contexts have both reached the Broker
\* while the one window it constructed is still loading
C4_Witness ==
  /\ winCount = 1
  /\ loadState[1] = "loading"
  /\ \A c \in Ctx : initCall[c] \notin {"none", "invoked"}

\* C5: a Broker call that arrives while a session creation is underway awaits
\* that creation: it neither returns nor dispatches a prompt before the page
\* load has completed or failed.
C5_AwaitsCreation ==
  [][(creatingWindowPromise # 0 /\ creatingWindowPromise' = creatingWindowPromise) =>
       /\ \A c \in Ctx : initCall[c] = "invoked" => initCall'[c] \in {"invoked", "waiting"}
       /\ \A op \in Ops : pc[op] = "invoked" => pc'[op] \in {"invoked", "waiting"}]_vars

\* C10: after session loss (the window closed, or its page failed to load)
\* readiness is cleared, and the next Broker call starts a new session creation
\* instead of using the lost session.
SessionLost == window = 0 \/ loadState[window] = "failed"

BrokerCallHandled ==
  \/ \E c \in Ctx : initCall[c] = "invoked" /\ initCall'[c] # "invoked"
  \/ \E op \in Ops : pc[op] = "invoked" /\ pc'[op] # "invoked"

C10_LossRecreates ==
  [][/\ (~SessionLost /\ SessionLost') => ~isReady'
     /\ (SessionLost /\ creatingWindowPromise = 0 /\ BrokerCallHandled)
          => winCount' = winCount + 1]_vars

\* C9 (as amended): the events the Observer emits for one request are chunks
\* with done=false followed by at most one terminal event, a done=true chunk or
\* an error; nothing follows the terminal event, and an error follows no chunk.
IsTerminalEvent(e) == e.type = "error" \/ e.done

C9_ChunksThenAtMostOneTerminal ==
  \A id \in Ids : \A k \in 1..Len(emitted[id]) :
    /\ IsTerminalEvent(emitted[id][k]) => k = Len(emitted[id])
    /\ emitted[id][k].type = "error" => k = 1

\* a request emitted a chunk and then its done=true event, and its record is gone
C9_Witness ==
  \E id \in Ids :
    /\ Len(emitted[id]) >= 2
    /\ emitted[id][Len(emitted[id])].done
    /\ ~ACTIVE_REQUESTS[id].interval

\* C9 (as claimed): the sequence ends with exactly one terminal event, so a
\* request that the Observer, its window still open, has let go of after
\* emitting has emitted its terminal event
C9_ExactlyOneTerminal ==
  /\ C9_ChunksThenAtMostOneTerminal
  /\ \A id \in Ids :
       (/\ winCount = 1 /\ liveWindows = {1}
        /\ emitted[id] # <<>> /\ ~ACTIVE_REQUESTS[id].interval)
         => IsTerminalEvent(emitted[id][Len(emitted[id])])

\* C6 (as amended): onUpdate is never called with done=false for a content
\* equal to that of the call before it; the done=true call repeats the last
\* content, and a content that comes back after another is delivered again.
C6_NoUnchangedChunk ==
  \A op \in Ops : \A k \in 1..(Len(cbLog[op]) - 1) :
    (/\ cbLog[op][k].kind = "update"
     /\ cbLog[op][k + 1].kind = "update"
     /\ ~cbLog[op][k + 1].done)
      => cbLog[op][k].content # cbLog[op][k + 1].content

\* two chunks and the final event were delivered
C6_Witness ==
  \E op \in Ops :
    /\ Len(cbLog[op]) >= 3
    /\ \A k \in 1..3 : cbLog[op][k].kind = "update"
    /\ cbLog[op][3].done

\* C6 (as claimed): no content value is passed twice to a request's onUpdate
C6_NoContentTwice ==
  \A op \in Ops : \A j, k \in 1..Len(cbLog[op]) :
    (j < k /\ cbLog[op][j].kind = "update" /\ cbLog[op][k].kind = "update")
      => cbLog[op][j].content # cbLog[op][k].content

\* C2: a request that is never cancelled, whose session is not lost and whose
\* done=true event the Observer emitted has had onUpdate called exactly once
\* with done=true by the time sendMessage has returned and the channels hold no
\* more of its events.
DoneCalls(op) ==
  {k \in 1..Len(cbLog[op]) : cbLog[op][k].kind = "update" /\ cbLog[op][k].done}

InFlight(op) ==
  \/ \E k \in 1..Len(up) : up[k].requestId = op
  \/ \E c \in Ctx : \E k \in 1..Len(stream[c]) : stream[c][k].requestId = op

C2_DoneDeliveredOnce ==
  \A op \in Ops :
    (/\ pc[op] = "returned"
     /\ cancelCalls = 0
     /\ winCount = 1 /\ window = 1 /\ loadState[1] = "loaded"
     /\ opCtx[op] \notin destroyed
     /\ emitted[op] # <<>> /\ emitted[op][Len(emitted[op])].done
     /\ ~InFlight(op))
      => Cardinality(DoneCalls(op)) = 1

\* C7: cancel of a request id that has no listener record is a no-op: it
\* changes neither the Facade's listener map nor the Broker's pending map, and
\* nothing of the Observer or of the generation in progress on the page.
C7_NoListenerCancelIsNoOp ==
  [][/\ (Len(cancelReq') > Len(cancelReq) /\ ~cancelReq'[Len(cancelReq')].hadListener)
          => (listeners' = listeners /\ pendingRequests' = pendingRequests)
     /\ (cancelReq # <<>> /\ cancelReq' = Tail(cancelReq) /\ ~Head(cancelReq).hadListener)
          => pendingRequests' = pendingRequests
     /\ (/\ down # <<>> /\ down' = Tail(down) /\ liveWindows' = liveWindows
         /\ Head(down).type = "cancel" /\ ~Head(down).hadListener)
          => (ACTIVE_REQUESTS' = ACTIVE_REQUESTS /\ pageStop' = pageStop /\ up' = up)]_vars

\* C11: Facade.sendMessage calls the Broker's sendMessage only when its
\* initialization yielded readiness: an invocation that was awaiting
\* ensureInitialized goes on to the Broker only with initialized = true.
C11_SendOnlyWhenReady ==
  [][\A op \in Ops :
       (pc[op] = "awaitInit" /\ pc'[op] = "invoked") => initialized'[opCtx[op]]]_vars

\* C12: when the page load of a session creation fails, every Broker call
\* awaiting that creation rejects to its caller; the pending map, both
\* channels to the Observer and the callers' streams stay as they were.
AwaitingCreation(w) == {k \in 1..Len(waiters) : waiters[k].win = w}

C12_FailedCreationRejects ==
  [][\A w \in Wins :
       (loadState[w] = "loading" /\ loadState'[w] = "failed") =>
         /\ \A k \in AwaitingCreation(w) :
              IF waiters[k].kind = "send"
              THEN pc'[waiters[k].who] = "rejectedReply"
              ELSE initCall'[waiters[k].who] = "rejected"
         /\ pendingRequests' = pendingRequests
         /\ down' = down /\ up' = up /\ stream' = stream]_vars

\* a sendMessage call was rejected by a failed creation and its caller has
\* seen the rejection; no id of its own is known anywhere
C12_Witness ==
  \E op \in Ops :
    /\ pc[op] = "rejected"
    /\ \E w \in Wins : loadState[w] = "failed"
    /\ pendingRequests[op] = 0
    /\ \A c \in Ctx : listeners[c][op] = 0

\* C13: the Observer emits a request's done=true event only at a tick of its
\* timer at which a non-empty chunk had been emitted before, the stop button
\* is absent and more than the quiet period has passed since the last change.
DoneEmitted(id) ==
  /\ Len(emitted'[id]) > Len(emitted[id])
  /\ emitted'[id][Len(emitted'[id])].done

C13_DoneOnlyWhenQuiet ==
  [][\A id \in Ids :
       DoneEmitted(id) =>
         /\ ACTIVE_REQUESTS[id].interval
         /\ Len(emitted'[id]) = Len(emitted[id]) + 1
         /\ \E k \in 1..Len(emitted[id]) :
              /\ emitted[id][k].type = "chunk"
              /\ ~emitted[id][k].done
              /\ emitted[id][k].content # ""
         /\ ~pageStop
         /\ ACTIVE_REQUESTS[id].lastEmit > 0
         /\ now - ACTIVE_REQUESTS[id].lastEmit > QuietPeriod]_vars

\* done was emitted after one chunk, the page having changed MaxPageSteps times
C13_Witness ==
  \E id \in Ids :
    /\ Len(emitted[id]) = 2
    /\ emitted[id][2].done
    /\ pageSteps = MaxPageSteps

\* C14: once the Observer has processed the cancel message of a request, in
\* whatever state the request was, it runs no timer for that request and emits
\* no event for it any more.
CancelProcessed(op) ==
  /\ \E k \in 1..Len(cbLog[op]) : cbLog[op][k].kind = "cancel"
  /\ \A k \in 1..Len(cancelReq) : cancelReq[k].requestId # op
  /\ \A k \in 1..Len(down) : ~(down[k].type = "cancel" /\ down[k].requestId = op)
  /\ winCount = 1 /\ liveWindows = {1}

C14_CancelDiscards ==
  [][\A op \in Ops :
       CancelProcessed(op) =>
         /\ ~ACTIVE_REQUESTS'[op].interval
         /\ emitted'[op] = emitted[op]]_vars

\* C15: the events the Observer emits for a request are one done=false chunk
\* for each sample that is non-empty and differs from the content emitted
\* before, no two consecutive chunks alike, then the done=true event with the
\* content of the last chunk; the Facade makes its calls in that same order.
LastChunkContent(es) ==
  LET ks == {k \in 1..Len(es) : es[k].type = "chunk" /\ ~es[k].done}
  IN  IF ks = {} THEN "" ELSE es[CHOOSE k \in ks : \A j \in ks : j <= k].content

\* the sequence emitted so far is well formed
EmittedInSampleOrder(id) ==
  LET es == emitted[id]
  IN  /\ \A k \in 1..Len(es) :
           /\ (es[k].type = "chunk" /\ ~es[k].done) =>
                 /\ es[k].content # ""
                 /\ es[k].content # LastChunkContent(SubSeq(es, 1, k - 1))
           /\ es[k].done =>
                 /\ k = Len(es) /\ k > 1
                 /\ es[k].content = LastChunkContent(SubSeq(es, 1, k - 1))
      /\ ACTIVE_REQUESTS[id].interval => ACTIVE_REQUESTS[id].lastContent = LastChunkContent(es)

\* a chunk appended in this step carries the sample of this step
ChunkIsTheSample(id) ==
  \A k \in (Len(emitted[id]) + 1)..Len(emitted'[id]) :
    (emitted'[id][k].type = "chunk" /\ ~emitted'[id][k].done) =>
      /\ k = Len(emitted[id]) + 1
      /\ emitted'[id][k].content = pageContent

\* the calls made to the callbacks, and the events emitted, as comparable tags
CallTags(op) ==
  LET cs == SelectSeq(cbLog[op], IsCallback)
  IN  [k \in 1..Len(cs) |->
         IF cs[k].kind = "error" THEN <<"error", None, FALSE>>
         ELSE <<"chunk", cs[k].content, cs[k].done>>]

EventTags(id) ==
  [k \in 1..Len(emitted[id]) |->
     IF emitted[id][k].type = "error" THEN <<"error", None, FALSE>>
     ELSE <<"chunk", emitted[id][k].content, emitted[id][k].done>>]

CallsInEmissionOrder(op) ==
  \E i \in 1..(Len(emitted[op]) + 1) :
    /\ i + Len(CallTags(op)) - 1 <= Len(emitted[op])
    /\ CallTags(op) = SubSeq(EventTags(op), i, i + Len(CallTags(op)) - 1)

C15_ChunksPerSampleThenDone ==
  [][/\ \A id \in Ids : EmittedInSampleOrder(id)' /\ ChunkIsTheSample(id)
     /\ \A op \in Ops : CallsInEmissionOrder(op)']_vars

\* the scenario of two growing samples and silence: chunk, chunk, done, and
\* the same three calls made to onUpdate
C15_Witness ==
  /\ EventTags(1) = <<<<"chunk", "a", FALSE>>, <<"chunk", "b", FALSE>>, <<"chunk", "b", TRUE>>>>
  /\ CallTags(1) = EventTags(1)

\* C16: a polling request that has emitted a chunk, whose page has made its
\* last change and shows no stop button, eventually emits its done=true event
\* and has its record and timer removed (the timer keeps firing, time passes,
\* no cancel; the clock of the model can still run past the quiet period).
Settled(id) ==
  /\ ACTIVE_REQUESTS[id].interval
  /\ ACTIVE_REQUESTS[id].lastEmit > 0
  /\ pageSteps = MaxPageSteps
  /\ ~pageStop
  /\ pageContent \in {"", ACTIVE_REQUESTS[id].lastContent}
  /\ \E k \in 0..(MaxNow \div ClockStep) :
       /\ now + k * ClockStep <= MaxNow
       /\ now + k * ClockStep - ACTIVE_REQUESTS[id].lastEmit > QuietPeriod

DoneAndReleased(id) ==
  /\ emitted[id] # <<>>
  /\ emitted[id][Len(emitted[id])].done
  /\ ACTIVE_REQUESTS[id] = NoState

C16_QuietLeadsToDone == \A id \in Ids : Settled(id) ~> DoneAndReleased(id)

\* the page went silent and empty after a chunk, and done was emitted
C16_Witness ==
  \E id \in Ids :
    /\ DoneAndReleased(id)
    /\ pageSteps = MaxPageSteps
    /\ pageContent = ""

\* C17: the Broker deletes a request's pending record when it handles the
\* request's done=true or error event, when it handles cancel of the request,
\* and when it handles an event of a request whose caller context has
\* terminated; an event of an id without a pending record is not forwarded
\* and leaves the map as it was.
C17_PendingRetired ==
  [][/\ (up # <<>> /\ up' = Tail(up) /\ Head(up).type \in {"chunk", "error"}) =>
          LET id == Head(up).requestId
              terminal == Head(up).type = "error" \/ Head(up).done
              caller == pendingRequests[id]
          IN  IF caller = 0
              THEN stream' = stream /\ pendingRequests' = pendingRequests
              ELSE /\ (terminal \/ caller \in destroyed) => pendingRequests'[id] = 0
                   /\ caller \in destroyed => stream' = stream
                   /\ caller \notin destroyed => Len(stream'[caller]) = Len(stream[caller]) + 1
     /\ (/\ cancelReq # <<>> /\ cancelReq' = Tail(cancelReq)
         /\ Head(cancelReq).requestId # EmptyId)
          => pendingRequests'[Head(cancelReq).requestId] = 0]_vars

\* a done=true event was forwarded to its caller and the record is gone
C17_Witness ==
  \E op \in Ops :
    /\ opCtx[op] \in Ctx
    /\ pendingRequests[op] = 0
    /\ \E k \in 1..Len(stream[opCtx[op]]) :
         /\ stream[opCtx[op]][k].requestId = op
         /\ stream[opCtx[op]][k].done
         /\ stream[opCtx[op]][k].error = None

\* C18: a Facade has one initialization attempt at a time: it invokes the
\* Broker's initialize only when none of its own is outstanding, and when the
\* attempt settles every sendMessage awaiting it goes on with its result, and
\* none goes on before.
InitSettles(c) ==
  initCall[c] \in {"resolvedT", "resolvedF", "rejected"} /\ initCall'[c] # initCall[c]

C18_OneInitAttempt ==
  [][\A c \in Ctx :
       /\ (initCall'[c] = "invoked" /\ initCall[c] # "invoked") => initCall[c] = "none"
       /\ InitSettles(c) =>
            /\ initCall'[c] = "none"
            /\ initialized'[c] = (initCall[c] = "resolvedT")
            /\ \A op \in Ops : opCtx[op] = c => pc'[op] # "awaitInit"
       /\ \A op \in Ops :
            (opCtx[op] = c /\ pc[op] = "awaitInit" /\ pc'[op] # "awaitInit") => InitSettles(c)]_vars

\* two sendMessage calls of one caller context await the one attempt, which
\* has reached the Broker
C18_Witness ==
  \E c \in Ctx :
    /\ initCall[c] = "waiting"
    /\ \A op \in Ops : opCtx[op] = c /\ pc[op] = "awaitInit"

\* C19: whenever the Broker's isReady is true, its window is set, is a live
\* window, and is one whose own page has sent the ready signal.
C19_ReadyImpliesLiveSession ==
  isReady => (window # 0 /\ window \in liveWindows /\ window \in domLoaded)

\* C20: with requests a and b both polling, the Observer's handling of the
\* cancel message of a leaves b's record and b's emitted events as they were
\* and does not make b's completion test come true.
CancelHandledFor(a) ==
  /\ down # <<>>
  /\ down' = Tail(down)
  /\ Head(down).type = "cancel"
  /\ Head(down).requestId = a

C20_CancelIsolated ==
  [][\A a, b \in Ops :
       (/\ a # b
        /\ ACTIVE_REQUESTS[a].interval
        /\ ACTIVE_REQUESTS[b].interval
        /\ CancelHandledFor(a))
         => /\ ACTIVE_REQUESTS'[b] = ACTIVE_REQUESTS[b]
            /\ emitted'[b] = emitted[b]
            /\ Quiet(ACTIVE_REQUESTS[b])' <=> Quiet(ACTIVE_REQUESTS[b])]_vars

====
